---- MODULE Spec2Model ----
(***************************************************************************)
(* A model of eggbug-rs: the publish pipeline of Post::send, the           *)
(* Attachment upload state machine, and the Session facade.                *)
(*                                                                         *)
(* One caller owns one Post.  It logs in until it holds a Session, then    *)
(* invokes create_post / edit_post / share_post on the Post, delete_post,  *)
(* or (crate-internal, on a Client) Attachment::upload on one of the       *)
(* Post's attachments, and waits for the call to return before making the  *)
(* next call (the Post is borrowed mutably for the whole call).  Every .await on the network is a separate step:   *)
(* the request is issued in one step and its response consumed in the      *)
(* next.                                                                   *)
(*                                                                         *)
(* Post fields that are copied verbatim into the payload and never read    *)
(* by the control flow (adult_content, tags, content_warnings, alt_text,   *)
(* filename, content_length, metadata) are left out.  A Post converted     *)
(* from a page read with get_posts_page keeps its metadata.  A Client not  *)
(* yet moved into a Session may be given a base URL with with_base_url;    *)
(* every request built from a relative path records the URL it goes to.    *)
(***************************************************************************)
EXTENDS Integers, Sequences, FiniteSets, TLC

\* ---------------------------------------------------------------- bounds

\* Longest attachment list of the Post.
MaxAttachments == 2

\* ------------------------------------------------------------- value sets

\* AttachmentId::default(): the nil UUID (derive(Default) on AttachmentId).
DefaultAttachmentId == 0

\* UUIDs the server may assign to an attachment.
AttachmentIds == {1, 2}

\* Post ids the server may return, and the caller may name.
PostIds == {1, 2}

\* The page (project handle) the caller posts to.
Page == "eggbug"

\* Content types of new attachments; the second one is rejected by mime_str.
ContentTypes == {"image/png", "not a mime type"}

Headlines == {"", "t"}

\* Markdown texts, as sequences of characters.
Markdowns == {<< >>, <<"a", "\n", "\n", "b">>}

\* Option<T>: None is the empty sequence, Some(x) the one-element sequence.
None == << >>

Some(x) == <<x>>

\* Display of the small integers used as ids (format!("{}", id)).
Display(n) ==
    CASE n = 0 -> "0" [] n = 1 -> "1" [] n = 2 -> "2" [] n = 3 -> "3"
      [] OTHER -> "n"

\* ------------------------------------------------------------ attachments

\* Inner::New { stream, filename, content_type, content_length, metadata }
InnerNew(ct) ==
    [kind |-> "New", content_type |-> ct, attachment_id |-> -1, url |-> << >>]

\* Inner::Uploaded(Finished { attachment_id, url })
InnerUploaded(fin) ==
    [kind |-> "Uploaded", content_type |-> "",
     attachment_id |-> fin.attachment_id, url |-> fin.url]

\* Inner::Failed
InnerFailed ==
    [kind |-> "Failed", content_type |-> "", attachment_id |-> -1, url |-> << >>]

\* The CDN URL the server publishes an attachment under.
CdnUrl(a) == <<"cdn", Display(a)>>

\* The bodies of a successful attach/finish response.
Finisheds == {[attachment_id |-> a, url |-> CdnUrl(a)] : a \in AttachmentIds}

\* Every value of Attachment.kind.
Inners ==
    {InnerNew(ct) : ct \in ContentTypes}
        \cup {InnerUploaded(f) : f \in Finisheds}
        \cup {InnerFailed}

is_new(att) == att.kind = "New"

is_uploaded(att) == att.kind = "Uploaded"

is_failed(att) == att.kind = "Failed"

\* Attachment::id: Some(id) only when Uploaded.
id(att) == IF att.kind = "Uploaded" THEN Some(att.attachment_id) ELSE None

\* Attachment::url: Some(url) only when Uploaded.
url(att) == IF att.kind = "Uploaded" THEN Some(att.url) ELSE None

\* Option::unwrap_or_default on Option<AttachmentId>.
unwrap_or_default(o) == IF o = None THEN DefaultAttachmentId ELSE o[1]

\* ------------------------------------------------------------------ posts

SeqsUpTo(S, n) == UNION {[1..k -> S] : k \in 0..n}

Posts ==
    [headline : Headlines, markdown : Markdowns, draft : BOOLEAN,
     attachments : SeqsUpTo(Inners, MaxAttachments)]

\* Post::is_empty
is_empty(p) ==
    Len(p.attachments) = 0 /\ p.headline = "" /\ Len(p.markdown) = 0

\* str::split("\n\n"): the pieces between non-overlapping matches of the
\* separator, scanning from the left; acc is the piece being read.
RECURSIVE SplitFrom(_, _, _)
SplitFrom(s, i, acc) ==
    IF i > Len(s) THEN <<acc>>
    ELSE IF i < Len(s) /\ s[i] = "\n" /\ s[i + 1] = "\n"
         THEN <<acc>> \o SplitFrom(s, i + 2, << >>)
         ELSE SplitFrom(s, i + 1, Append(acc, s[i]))

split(s) == SplitFrom(s, 1, << >>)

\* The attachment blocks of Post::as_api (post.rs 183-192).
AttachmentBlocks(p) ==
    [i \in 1..Len(p.attachments) |->
        [type |-> "attachment",
         attachment_id |-> unwrap_or_default(id(p.attachments[i]))]]

\* MarkdownBlocks that sends the markdown as one block.
MarkdownBlocks_Unsplit(p) ==
    IF Len(p.markdown) # 0
    THEN <<[type |-> "markdown", content |-> p.markdown]>>
    ELSE << >>

\* The markdown blocks of Post::as_api (post.rs 193-199).
MarkdownBlocks(p) ==
    IF Len(p.markdown) # 0
    THEN LET parts == split(p.markdown)
         IN [i \in 1..Len(parts) |-> [type |-> "markdown", content |-> parts[i]]]
    ELSE << >>

\* post_state of Post::as_api (post.rs 206).
PostState(p, force_draft) == IF force_draft \/ p.draft THEN 0 ELSE 1

\* as_api that writes the markdown before the attachments.
as_api_MarkdownFirst(p, force_draft, shared_post) ==
    [blocks |-> MarkdownBlocks(p) \o AttachmentBlocks(p),
     headline |-> p.headline,
     post_state |-> PostState(p, force_draft),
     share_of_post_id |-> shared_post]

\* Post::as_api: the wire payload.
as_api(p, force_draft, shared_post) ==
    [blocks |-> AttachmentBlocks(p) \o MarkdownBlocks(p),
     headline |-> p.headline,
     post_state |-> PostState(p, force_draft),
     share_of_post_id |-> shared_post]

\* ------------------------------------------------------------------- JSON

\* The hyphenated string serde writes for a Uuid; ids are single digits.
UuidString(a) == "00000000-0000-0000-0000-00000000000" \o Display(a)

\* ser::Attachment that leaves the id of a pending attachment out.
JsonAttachment_OmitsDefault(b) ==
    IF b.attachment_id = DefaultAttachmentId
    THEN [altText |-> ""]
    ELSE [altText |-> "", attachmentId |-> UuidString(b.attachment_id)]

\* ser::Attachment as JSON (post.rs 323-328): the id field is not an
\* Option and is always written.
JsonAttachment(b) ==
    [altText |-> "", attachmentId |-> UuidString(b.attachment_id)]

\* ser::Block as JSON (post.rs 316-321): internally tagged by "type".
JsonBlock(b) ==
    IF b.type = "attachment"
    THEN [type |-> "attachment", attachment |-> JsonAttachment(b)]
    ELSE [type |-> "markdown", markdown |-> [content |-> b.content]]

\* ser::Post as JSON (post.rs 296-308): camelCase names, shareOfPostId
\* skipped when None.
to_json(body) ==
    LET fields ==
            [blocks |-> [k \in DOMAIN body.blocks |-> JsonBlock(body.blocks[k])],
             headline |-> body.headline,
             postState |-> body.post_state]
    IN IF body.share_of_post_id = None
       THEN fields
       ELSE fields @@ [shareOfPostId |-> body.share_of_post_id[1]]

\* ----------------------------------------------------------------- errors

NoError == [type |-> "", at |-> << >>]

EmptyPost == [type |-> "EmptyPost", at |-> << >>]

FailedAttachment == [type |-> "FailedAttachment", at |-> << >>]

\* Error::Request: the reqwest error of the request `at`.  Whatever made
\* the request fail (cause: no connection, a non-2xx status, a body that
\* does not decode), the caller gets the same variant.
Request(at, cause) == [type |-> "Request", at |-> at]

\* Result values: nothing returned yet, Ok(v), Err(e).
NoResult == [tag |-> "None", value |-> -1, err |-> NoError]

Ok(v) == [tag |-> "Ok", value |-> v, err |-> NoError]

Err(e) == [tag |-> "Err", value |-> -1, err |-> e]

\* Failures of `.send().await?.error_for_status()?`.
SendFailures == {"connect", "status"}

\* Failures of `.send().await?.error_for_status()?.json().await?`.
JsonFailures == SendFailures \cup {"decode"}

\* ----------------------------------------------------------------- base64

\* base64::STANDARD_NO_PAD: the alphabet, in the order of the 6-bit values.
StdAlphabet ==
    <<
      "A", "B", "C", "D", "E", "F", "G", "H", "I", "J", "K", "L", "M",
      "N", "O", "P", "Q", "R", "S", "T", "U", "V", "W", "X", "Y", "Z",
      "a", "b", "c", "d", "e", "f", "g", "h", "i", "j", "k", "l", "m",
      "n", "o", "p", "q", "r", "s", "t", "u", "v", "w", "x", "y", "z",
      "0", "1", "2", "3", "4", "5", "6", "7", "8", "9", "+", "/"
    >>

\* base64::URL_SAFE_NO_PAD: the alphabet, in the order of the 6-bit values.
UrlAlphabet ==
    <<
      "A", "B", "C", "D", "E", "F", "G", "H", "I", "J", "K", "L", "M",
      "N", "O", "P", "Q", "R", "S", "T", "U", "V", "W", "X", "Y", "Z",
      "a", "b", "c", "d", "e", "f", "g", "h", "i", "j", "k", "l", "m",
      "n", "o", "p", "q", "r", "s", "t", "u", "v", "w", "x", "y", "z",
      "0", "1", "2", "3", "4", "5", "6", "7", "8", "9", "-", "_"
    >>

\* The 6-bit value of character c in an alphabet, -1 when it has none.
SixBits(alphabet, c) ==
    IF \E k \in DOMAIN alphabet : alphabet[k] = c
    THEN (CHOOSE k \in DOMAIN alphabet : alphabet[k] = c) - 1
    ELSE -1

\* The bytes of a sequence of 6-bit values: three bytes for each four
\* values, and one or two bytes for the last two or three.
RECURSIVE SixBitsToBytes(_)
SixBitsToBytes(v) ==
    IF Len(v) < 2 THEN << >>
    ELSE IF Len(v) = 2 THEN <<v[1] * 4 + v[2] \div 16>>
    ELSE IF Len(v) = 3
         THEN <<v[1] * 4 + v[2] \div 16, (v[2] % 16) * 16 + v[3] \div 4>>
         ELSE <<v[1] * 4 + v[2] \div 16, (v[2] % 16) * 16 + v[3] \div 4,
                (v[3] % 4) * 64 + v[4]>>
                  \o SixBitsToBytes(SubSeq(v, 5, Len(v)))

\* The bits of the last character that belong to no byte.
TrailingBits(v) ==
    IF Len(v) % 4 = 2 THEN v[Len(v)] % 16
    ELSE IF Len(v) % 4 = 3 THEN v[Len(v)] % 4
    ELSE 0

DecodeOk(bytes) == [ok |-> TRUE, bytes |-> bytes, error |-> ""]

DecodeErr(e) == [ok |-> FALSE, bytes |-> << >>, error |-> e]

\* base64::decode_config(s, config) for a config without padding that does
\* not allow trailing bits, on a string without '='.
decode_config(s, alphabet) ==
    LET v == [k \in DOMAIN s |-> SixBits(alphabet, s[k])]
    IN IF \E k \in DOMAIN v : v[k] = -1 THEN DecodeErr("InvalidByte")
       ELSE IF Len(v) % 4 = 1 THEN DecodeErr("InvalidLength")
       ELSE IF TrailingBits(v) # 0 THEN DecodeErr("InvalidLastSymbol")
       ELSE DecodeOk(SixBitsToBytes(v))

\* salt.replace(['-', '_'], "A") (client.rs 145).
ReplaceWithA(s) ==
    [k \in DOMAIN s |-> IF s[k] \in {"-", "_"} THEN "A" ELSE s[k]]

\* decode_salt that decodes the salt as it came, with the URL-safe alphabet.
decode_salt_UrlSafe(s) == decode_config(s, UrlAlphabet)

\* decode_salt that answers an undecodable salt with the empty salt.
decode_salt_Lenient(s) ==
    IF decode_config(ReplaceWithA(s), StdAlphabet).ok
    THEN decode_config(ReplaceWithA(s), StdAlphabet)
    ELSE DecodeOk(<< >>)

\* decode_salt (client.rs 143-148).
decode_salt(s) == decode_config(ReplaceWithA(s), StdAlphabet)

PBKDF2_ITERATIONS == 200000

PBKDF2_KEY_LENGTH == 128

\* ClientHash that derives the key without the salt.
ClientHash_Unsalted(password, salt_bytes) ==
    [encoding |-> "base64::encode", prf |-> "Hmac<Sha384>",
     password |-> password, salt |-> << >>,
     rounds |-> PBKDF2_ITERATIONS, length |-> PBKDF2_KEY_LENGTH]

\* client_hash of Client::login (client.rs 74-81): the key derivation is
\* kept as its parameters.
ClientHash(password, salt_bytes) ==
    [encoding |-> "base64::encode", prf |-> "Hmac<Sha384>",
     password |-> password, salt |-> salt_bytes,
     rounds |-> PBKDF2_ITERATIONS, length |-> PBKDF2_KEY_LENGTH]

\* Error::Base64Decode
Base64Decode(e) == [type |-> "Base64Decode", at |-> <<e>>]

\* The caller's credentials.
Email == "eggbug@website.invalid"

Password == "hunter2"

\* The salts the server answers a login with: a byte, a byte written with
\* a URL-safe character, and two strings that do not decode.
Salts == {<<"Q", "Q">>, <<"_", "w">>, <<"Q">>, <<"Q", "/">>}

\* ------------------------------------------------------------------ state

VARIABLES
    post,        \* the caller's Post
    pc,          \* where the running call is suspended; "idle" between calls
    call,        \* the arguments and locals of the running (or last) call
    requests,    \* the post-level requests issued by the running (or last) call
    task,        \* task[i]: where attachment i's upload future is suspended
    locals,      \* locals[i]: what upload i holds: content_type, both responses
    uploadReqs,  \* uploadReqs[i]: the requests issued by upload i in this call
    result,      \* what the last call returned
    pre,         \* the Post as it was when the running (or last) call began
    session,     \* the Session the caller holds: None until a login succeeds
    salt,        \* the salt of the SaltResponse held by the running login
    response,    \* how the last response to a request in requests ended
    base_url,    \* Client.base_url
    custom_url,  \* the base URL last given to with_base_url, None before
    posts_page   \* the PostPage read by the running (or last) get_posts_page

vars ==
    <<post, pc, call, requests, task, locals, uploadReqs, result, pre,
      session, salt, response, base_url, custom_url, posts_page>>

\* What the calls of a Session and of an upload leave alone.
clientVars == <<base_url, custom_url, posts_page>>

\* The default base URL of Client::new, as the text before its last
\* character and that character.
DefaultBaseUrl == <<"https://cohost.org/api/v1", "/">>

\* The Client of Client::new (client.rs 38-49), with no page fetched.
NewClient ==
    /\ base_url = DefaultBaseUrl
    /\ custom_url = None
    /\ posts_page = None

Slots == 1..MaxAttachments

Atts == DOMAIN post.attachments

\* A relative path as text: its segments joined by "/".
RECURSIVE RelativePath(_)
RelativePath(path) ==
    IF Len(path) <= 1 THEN path
    ELSE <<Head(path), "/">> \o RelativePath(Tail(path))

\* format!("{}{}", self.base_url, path) of request_impl and Client::request.
RequestUrl(base, path) == base \o RelativePath(path)

NoCall ==
    [op |-> "", method |-> "", path |-> << >>, project |-> "",
     shared_post |-> None, need_upload |-> FALSE, post_id |-> -1]

NoLocals ==
    [content_type |-> "", attachment_id |-> None, url |-> "",
     required_fields |-> {}, finished |-> None]

Init ==
    /\ post \in Posts
    /\ pc = "idle"
    /\ call = NoCall
    /\ requests = << >>
    /\ task = [i \in Slots |-> "none"]
    /\ locals = [i \in Slots |-> NoLocals]
    /\ uploadReqs = [i \in Slots |-> << >>]
    /\ result = NoResult
    /\ pre = post
    /\ session = None
    /\ salt = None
    /\ response = ""
    /\ NewClient

\* ------------------------------------------------------------- Post::send

\* Validate without the empty-post check.
Validate_NoEmptyCheck(p, shared_post) ==
    IF \E i \in DOMAIN p.attachments : is_failed(p.attachments[i])
    THEN Err(FailedAttachment)
    ELSE NoResult

\* Validate that rejects a post only when all its attachments are Failed.
Validate_AllFailed(p, shared_post) ==
    IF is_empty(p) /\ shared_post = None THEN Err(EmptyPost)
    ELSE IF /\ Len(p.attachments) > 0
            /\ \A i \in DOMAIN p.attachments : is_failed(p.attachments[i])
         THEN Err(FailedAttachment)
         ELSE NoResult

\* Validate whose empty-post check forgets the share reference.
Validate_ShareNotExempt(p, shared_post) ==
    IF is_empty(p) THEN Err(EmptyPost)
    ELSE IF \E i \in DOMAIN p.attachments : is_failed(p.attachments[i])
         THEN Err(FailedAttachment)
         ELSE NoResult

\* Validate without the failed-attachment check.
Validate_NoFailedCheck(p, shared_post) ==
    IF is_empty(p) /\ shared_post = None THEN Err(EmptyPost) ELSE NoResult

\* The two validity checks of Post::send (post.rs 141-146): the error send
\* returns at once, or NoResult when the post passes.
Validate(p, shared_post) ==
    IF is_empty(p) /\ shared_post = None THEN Err(EmptyPost)
    ELSE IF \E i \in DOMAIN p.attachments : is_failed(p.attachments[i])
         THEN Err(FailedAttachment)
         ELSE NoResult

\* need_upload that is true for any attachment, whatever its state.
NeedUpload_AnyAttachment(p) == Len(p.attachments) > 0

\* need_upload of Post::send (post.rs 148).
NeedUpload(p) == \E i \in DOMAIN p.attachments : is_new(p.attachments[i])

\* The request Post::send issues first (post.rs 150-154).
FirstRequest(p, method, path, shared_post) ==
    [method |-> method, path |-> path,
     url |-> RequestUrl(base_url, path),
     body |-> as_api(p, NeedUpload(p), shared_post)]

\* FinalizeRequest that forgets the share reference.
FinalizeRequest_DropsShare(p, project, post_id, shared_post) ==
    [method |-> "PUT",
     path |-> <<"project", project, "posts", Display(post_id)>>,
     url |-> RequestUrl(base_url,
                <<"project", project, "posts", Display(post_id)>>),
     body |-> as_api(p, FALSE, None)]

\* FinalizeRequest sent to where the first request went.
FinalizeRequest_ToFirstPath(p, project, post_id, shared_post) ==
    [method |-> "PUT",
     path |-> call.path,
     url |-> RequestUrl(base_url, call.path),
     body |-> as_api(p, FALSE, shared_post)]

\* The finalize request of Post::send (post.rs 169-173).
FinalizeRequest(p, project, post_id, shared_post) ==
    [method |-> "PUT",
     path |-> <<"project", project, "posts", Display(post_id)>>,
     url |-> RequestUrl(base_url,
                <<"project", project, "posts", Display(post_id)>>),
     body |-> as_api(p, FALSE, shared_post)]

\* Post::send up to its first await (post.rs 141-155).
SendBegin(op, method, path, project, shared_post) ==
    /\ pc = "idle"
    /\ session # None
    /\ salt' = None
    /\ response' = ""
    /\ UNCHANGED session
    /\ pre' = post
    /\ call' = [op |-> op, method |-> method, path |-> path,
                project |-> project, shared_post |-> shared_post,
                need_upload |-> NeedUpload(post), post_id |-> -1]
    /\ task' = [i \in Slots |-> "none"]
    /\ locals' = [i \in Slots |-> NoLocals]
    /\ uploadReqs' = [i \in Slots |-> << >>]
    /\ IF Validate(post, shared_post).tag = "Err"
       THEN /\ result' = Validate(post, shared_post)
            /\ requests' = << >>
            /\ pc' = "idle"
       ELSE /\ result' = NoResult
            /\ requests' = <<FirstRequest(post, method, path, shared_post)>>
            /\ pc' = "first"
    /\ UNCHANGED post
    /\ UNCHANGED clientVars

\* Session::create_post
CreatePost ==
    SendBegin("create_post", "POST", <<"project", Page, "posts">>, Page, None)

\* Session::share_post
SharePost ==
    \E shared_post \in PostIds :
        SendBegin("share_post", "POST", <<"project", Page, "posts">>, Page,
                  Some(shared_post))

\* Session::edit_post
EditPost ==
    \E pid \in PostIds :
        SendBegin("edit_post", "PUT",
                  <<"project", Page, "posts", Display(pid)>>, Page, None)

\* FirstResp that issues the first request once more when it fails.
FirstResp_Retries ==
    /\ pc = "first"
    /\ \/ \E c \in JsonFailures :
            /\ response' = c
            /\ IF Len(requests) = 1
               THEN /\ requests' = Append(requests, requests[1])
                    /\ UNCHANGED <<pc, result>>
               ELSE /\ result' = Err(Request(<<"first">>, c))
                    /\ pc' = "idle"
                    /\ UNCHANGED requests
            /\ UNCHANGED <<call, task>>
       \/ \E pid \in PostIds :
            /\ response' = "2xx"
            /\ call' = [call EXCEPT !.post_id = pid]
            /\ IF call.need_upload
               THEN /\ pc' = "uploading"
                    /\ task' = [i \in Slots |->
                                   IF i \in Atts THEN "unpolled" ELSE "none"]
                    /\ UNCHANGED result
               ELSE /\ pc' = "idle"
                    /\ result' = Ok(pid)
                    /\ UNCHANGED task
            /\ UNCHANGED requests
    /\ UNCHANGED <<post, locals, uploadReqs, pre, session, salt>>
    /\ UNCHANGED clientVars

\* The first request's response arrives (post.rs 155-159) and, without
\* uploads, send returns (post.rs 161, 178).
FirstResp ==
    /\ pc = "first"
    /\ \/ \E c \in JsonFailures :
            /\ response' = c
            /\ result' = Err(Request(<<"first">>, c))
            /\ pc' = "idle"
            /\ UNCHANGED <<call, task>>
       \/ \E pid \in PostIds :
            /\ response' = "2xx"
            /\ call' = [call EXCEPT !.post_id = pid]
            /\ IF call.need_upload
               THEN /\ pc' = "uploading"
                    /\ task' = [i \in Slots |->
                                   IF i \in Atts THEN "unpolled" ELSE "none"]
                    /\ UNCHANGED result
               ELSE /\ pc' = "idle"
                    /\ result' = Ok(pid)
                    /\ UNCHANGED task
    /\ UNCHANGED <<post, requests, locals, uploadReqs, pre, session, salt>>
    /\ UNCHANGED clientVars

\* ------------------------------------------------------ Attachment::upload

OkUnit == [tag |-> "Ok", value |-> -1, err |-> NoError]

\* A match on self.kind in place, which leaves the attachment as it was.
Replaced_KeepsOld(old) == old

\* What `std::mem::replace(&mut self.kind, Inner::Failed)` leaves in
\* self.kind (attachment.rs 232).
Replaced(old) == InnerFailed

\* The match with an Uploaded attachment uploaded once more.
UploadMatch_UploadedProceeds(old) ==
    CASE old.kind = "New" -> "proceed"
      [] old.kind = "Uploaded" -> "proceed"
      [] old.kind = "Failed" -> "err"

\* The match with a Failed attachment taken for an uploaded one.
UploadMatch_FailedOk(old) ==
    CASE old.kind = "New" -> "proceed"
      [] old.kind = "Uploaded" -> "ok"
      [] old.kind = "Failed" -> "ok"

\* The match on the replaced value (attachment.rs 232-242): go on with the
\* upload, or return at once.
UploadMatch(old) ==
    CASE old.kind = "New" -> "proceed"
      [] old.kind = "Uploaded" -> "ok"
      [] old.kind = "Failed" -> "err"

\* join_all in place of try_join_all: an Err does not end the join.
TaskReturns_NoShortCircuit(i, r) ==
    /\ task' = [task EXCEPT ![i] = IF r.tag = "Ok" THEN "ok" ELSE "err"]
    /\ IF call.op = "upload"
       THEN pc' = "idle" /\ result' = r
       ELSE UNCHANGED <<pc, result>>

\* An upload future returns r.  Called directly, upload's result is the
\* call's.  Under try_join_all (post.rs 162-167) an Ok is kept until all are
\* in, and the first Err makes the join return it, dropping the other upload
\* futures where they are, and `?` returns it from send.
TaskReturns(i, r) ==
    /\ task' = [task EXCEPT ![i] = IF r.tag = "Ok" THEN "ok" ELSE "err"]
    /\ IF call.op = "upload" \/ r.tag = "Err"
       THEN pc' = "idle" /\ result' = r
       ELSE UNCHANGED <<pc, result>>

\* Uploads spawned as tasks of their own, which go on after send returned.
Running_Detached ==
    pc \in {"uploading", "upload"}
        \/ (pc = "idle" /\ call.op \in {"create_post", "edit_post", "share_post"}
                /\ \E i \in DOMAIN post.attachments :
                      task[i] \in {"start", "multipart", "finish"})

Running == pc \in {"uploading", "upload"}

\* try_join_all has polled every upload future at least once.
FirstPollDone == \A j \in Atts : task[j] # "unpolled"

\* Upload i is the one the first poll of try_join_all has reached last.
LastPolled(i) == \A j \in Atts : j > i => task[j] = "unpolled"

StartRequest(project, post_id, ct) ==
    [method |-> "POST", path |-> <<"trpc/posts.attachment.start">>,
     url |-> RequestUrl(base_url, <<"trpc/posts.attachment.start">>),
     body |-> [project_handle |-> project, post_id |-> post_id,
               content_type |-> ct]]

\* The first poll of upload i: attachment.rs 231-256.  try_join_all polls
\* its futures in list order.
UploadBegin(i) ==
    /\ Running
    /\ i \in Atts
    /\ task[i] = "unpolled"
    /\ \A j \in Atts : j < i => task[j] # "unpolled"
    /\ LET old == post.attachments[i]
       IN /\ post' = [post EXCEPT !.attachments[i] = Replaced(old)]
          /\ CASE UploadMatch(old) = "proceed" ->
                    /\ locals' = [locals EXCEPT ![i].content_type =
                                                 old.content_type]
                    /\ uploadReqs' = [uploadReqs EXCEPT ![i] =
                          <<StartRequest(call.project, call.post_id,
                                         old.content_type)>>]
                    /\ task' = [task EXCEPT ![i] = "start"]
                    /\ UNCHANGED <<pc, result>>
               [] UploadMatch(old) = "ok" ->
                    /\ TaskReturns(i, OkUnit)
                    /\ UNCHANGED <<locals, uploadReqs>>
               [] UploadMatch(old) = "err" ->
                    /\ TaskReturns(i, Err(FailedAttachment))
                    /\ UNCHANGED <<locals, uploadReqs>>
    /\ UNCHANGED <<call, requests, pre, session, salt, response>>
    /\ UNCHANGED clientVars

\* A direct call of Attachment::upload on attachment i of the Post.
UploadCall(i) ==
    /\ pc = "idle"
    /\ i \in Atts
    /\ \E pid \in PostIds :
        call' = [op |-> "upload", method |-> "", path |-> << >>,
                 project |-> Page, shared_post |-> None,
                 need_upload |-> FALSE, post_id |-> pid]
    /\ pre' = post
    /\ pc' = "upload"
    /\ result' = NoResult
    /\ requests' = << >>
    /\ task' = [j \in Slots |-> IF j = i THEN "unpolled" ELSE "none"]
    /\ locals' = [j \in Slots |-> NoLocals]
    /\ uploadReqs' = [j \in Slots |-> << >>]
    /\ salt' = None
    /\ response' = ""
    /\ UNCHANGED <<post, session>>
    /\ UNCHANGED clientVars

\* Part::mime_str accepts the content type (attachment.rs 271).
MimeOk(ct) == ct = "image/png"

\* The upload target and form fields of an AttachStartResponse.
UploadUrl == "https://upload.invalid/"

RequiredFields == {"key", "policy"}

\* The AttachStartResponses the server answers with (attachment.rs 328-334).
StartResponses ==
    {[attachment_id |-> a, url |-> UploadUrl,
      required_fields |-> RequiredFields] : a \in AttachmentIds}

\* MultipartRequest with the file part alone.
MultipartRequest_FileOnly(target, fields) ==
    [method |-> "POST", url |-> target, form |-> {"file"}]

MultipartRequest(target, fields) ==
    [method |-> "POST", url |-> target, form |-> fields \cup {"file"}]

FinishRequest(project, post_id, aid) ==
    [method |-> "POST",
     path |-> <<"project", project, "posts", Display(post_id), "attach",
                "finish", Display(aid)>>,
     url |-> RequestUrl(base_url,
                <<"project", project, "posts", Display(post_id), "attach",
                  "finish", Display(aid)>>)]

UploadAt(i, step) == <<"upload", Display(i), step>>

\* The start response arrives (attachment.rs 257-280): build the form and
\* issue the multipart upload.
StartRespIn(i, responses) ==
    /\ Running
    /\ task[i] = "start"
    /\ \/ /\ FirstPollDone \/ LastPolled(i)
          /\ \E c \in JsonFailures :
                TaskReturns(i, Err(Request(UploadAt(i, "start"), c)))
          /\ UNCHANGED <<locals, uploadReqs>>
       \/ /\ FirstPollDone
          /\ \E r \in responses :
                /\ locals' = [locals EXCEPT
                                 ![i].attachment_id = Some(r.attachment_id),
                                 ![i].url = r.url,
                                 ![i].required_fields = r.required_fields]
                /\ IF MimeOk(locals[i].content_type)
                   THEN /\ uploadReqs' = [uploadReqs EXCEPT ![i] =
                              Append(@, MultipartRequest(r.url,
                                                         r.required_fields))]
                        /\ task' = [task EXCEPT ![i] = "multipart"]
                        /\ UNCHANGED <<pc, result>>
                   ELSE /\ TaskReturns(i,
                              Err(Request(UploadAt(i, "mime"), "builder")))
                        /\ UNCHANGED uploadReqs
    /\ UNCHANGED <<post, call, requests, pre, session, salt, response>>
    /\ UNCHANGED clientVars

StartResp(i) == StartRespIn(i, StartResponses)

\* The multipart response arrives (attachment.rs 279-288): issue the finish
\* request.
MultipartResp(i) ==
    /\ Running
    /\ task[i] = "multipart"
    /\ \/ /\ \E c \in SendFailures :
                TaskReturns(i, Err(Request(UploadAt(i, "multipart"), c)))
          /\ UNCHANGED uploadReqs
       \/ /\ uploadReqs' = [uploadReqs EXCEPT ![i] =
                Append(@, FinishRequest(call.project, call.post_id,
                                        locals[i].attachment_id[1]))]
          /\ task' = [task EXCEPT ![i] = "finish"]
          /\ UNCHANGED <<pc, result>>
    /\ UNCHANGED <<post, call, requests, locals, pre, session, salt,
                   response>>
    /\ UNCHANGED clientVars

\* FinishResp that stores every finish response in the first attachment.
FinishResp_WritesFirst(i) ==
    /\ Running
    /\ task[i] = "finish"
    /\ \/ /\ \E c \in JsonFailures :
                TaskReturns(i, Err(Request(UploadAt(i, "finish"), c)))
          /\ UNCHANGED <<post, locals>>
       \/ \E fin \in Finisheds :
            /\ locals' = [locals EXCEPT ![i].finished = Some(fin)]
            /\ post' = [post EXCEPT !.attachments[1] = InnerUploaded(fin)]
            /\ TaskReturns(i, OkUnit)
    /\ UNCHANGED <<call, requests, uploadReqs, pre, session, salt, response>>
    /\ UNCHANGED clientVars

\* The finish response arrives (attachment.rs 282-294).
FinishResp(i) ==
    /\ Running
    /\ task[i] = "finish"
    /\ \/ /\ \E c \in JsonFailures :
                TaskReturns(i, Err(Request(UploadAt(i, "finish"), c)))
          /\ UNCHANGED <<post, locals>>
       \/ \E fin \in Finisheds :
            /\ locals' = [locals EXCEPT ![i].finished = Some(fin)]
            /\ post' = [post EXCEPT !.attachments[i] = InnerUploaded(fin)]
            /\ TaskReturns(i, OkUnit)
    /\ UNCHANGED <<call, requests, uploadReqs, pre, session, salt, response>>
    /\ UNCHANGED clientVars

\* ---------------------------------------------------- Post::send, finalize

\* IssueFinalize that goes on at the first upload to return Ok.
IssueFinalize_Early ==
    /\ pc = "uploading"
    /\ \E i \in Atts : task[i] = "ok"
    /\ requests' = Append(requests,
          FinalizeRequest(post, call.project, call.post_id, call.shared_post))
    /\ pc' = "finalize"
    /\ UNCHANGED <<post, call, task, locals, uploadReqs, result, pre, session,
                   salt, response>>
    /\ UNCHANGED clientVars

\* try_join_all returned Ok: issue the finalize PUT (post.rs 167-173).
IssueFinalize ==
    /\ pc = "uploading"
    /\ \A i \in Atts : task[i] = "ok"
    /\ requests' = Append(requests,
          FinalizeRequest(post, call.project, call.post_id, call.shared_post))
    /\ pc' = "finalize"
    /\ UNCHANGED <<post, call, task, locals, uploadReqs, result, pre, session,
                   salt, response>>
    /\ UNCHANGED clientVars

\* The finalize response arrives and send returns (post.rs 174-178).
FinalizeResp ==
    /\ pc = "finalize"
    /\ \/ \E c \in SendFailures :
            /\ response' = c
            /\ result' = Err(Request(<<"finalize">>, c))
       \/ /\ response' = "2xx"
          /\ result' = Ok(call.post_id)
    /\ pc' = "idle"
    /\ UNCHANGED <<post, call, requests, task, locals, uploadReqs, pre, session,
                   salt>>
    /\ UNCHANGED clientVars

\* ------------------------------------------------------------------ login

\* A call that is not a send begins: its arguments, and nothing issued yet.
CallBegins(op, project, post_id) ==
    /\ pc = "idle"
    /\ call' = [op |-> op, method |-> "", path |-> << >>, project |-> project,
                shared_post |-> None, need_upload |-> FALSE,
                post_id |-> post_id]
    /\ pre' = post
    /\ result' = NoResult
    /\ task' = [j \in Slots |-> "none"]
    /\ locals' = [j \in Slots |-> NoLocals]
    /\ uploadReqs' = [j \in Slots |-> << >>]
    /\ salt' = None
    /\ response' = ""
    /\ UNCHANGED <<post, session>>
    /\ UNCHANGED clientVars

SaltRequest(email) ==
    [method |-> "GET", path |-> <<"login/salt">>,
     url |-> RequestUrl(base_url, <<"login/salt">>),
     query |-> [email |-> email]]

LoginRequest(email, client_hash) ==
    [method |-> "POST", path |-> <<"login">>,
     url |-> RequestUrl(base_url, <<"login">>),
     body |-> [email |-> email, client_hash |-> client_hash]]

\* Session::login / Client::login up to its first await (client.rs 64-68).
LoginCall ==
    /\ session = None
    /\ CallBegins("login", "", -1)
    /\ requests' = <<SaltRequest(Email)>>
    /\ pc' = "salt"

\* The salt response arrives (client.rs 69-86): derive the hash and issue
\* the login request, or return the decode error.
SaltRespIn(salts) ==
    /\ pc = "salt"
    /\ \/ \E c \in JsonFailures :
            /\ response' = c
            /\ result' = Err(Request(<<"salt">>, c))
            /\ pc' = "idle"
            /\ UNCHANGED <<requests, salt>>
       \/ \E s \in salts :
            /\ response' = "2xx"
            /\ salt' = Some(s)
            /\ IF decode_salt(s).ok
               THEN /\ requests' = Append(requests,
                          LoginRequest(Email,
                              ClientHash(Password, decode_salt(s).bytes)))
                    /\ pc' = "login"
                    /\ UNCHANGED result
               ELSE /\ result' = Err(Base64Decode(decode_salt(s).error))
                    /\ pc' = "idle"
                    /\ UNCHANGED requests
    /\ UNCHANGED <<post, call, task, locals, uploadReqs, pre, session>>
    /\ UNCHANGED clientVars

SaltResp == SaltRespIn(Salts)

\* The Session of a Client.
SessionOf(client) == Some(client)

\* The login response arrives (client.rs 87-93).
LoginResp ==
    /\ pc = "login"
    /\ \/ \E c \in JsonFailures :
            /\ response' = c
            /\ result' = Err(Request(<<"login">>, c))
            /\ UNCHANGED session
       \/ /\ response' = "2xx"
          /\ result' = OkUnit
          /\ session' = SessionOf("client")
    /\ pc' = "idle"
    /\ UNCHANGED <<post, call, requests, task, locals, uploadReqs, pre, salt>>
    /\ UNCHANGED clientVars

\* ------------------------------------------------------------ delete_post

DeleteRequest(page, post_id) ==
    [method |-> "DELETE",
     path |-> <<"project", page, "posts", Display(post_id)>>,
     url |-> RequestUrl(base_url,
                <<"project", page, "posts", Display(post_id)>>)]

\* Session::delete_post up to its await (session.rs 85-88).
DeletePost ==
    /\ session # None
    /\ \E pid \in PostIds :
        /\ CallBegins("delete_post", Page, pid)
        /\ requests' = <<DeleteRequest(Page, pid)>>
    /\ pc' = "delete"

\* DeleteResult without error_for_status: any response is a success.
DeleteResult_AnyResponse(status) ==
    IF status \in {"2xx", "status"} THEN OkUnit
    ELSE Err(Request(<<"delete">>, status))

\* What delete_post returns for a response (session.rs 89-91).
DeleteResult(status) ==
    IF status = "2xx" THEN OkUnit ELSE Err(Request(<<"delete">>, status))

\* The delete response arrives (session.rs 89-91).
DeleteResp ==
    /\ pc = "delete"
    /\ \E status \in {"2xx"} \cup SendFailures :
        /\ response' = status
        /\ result' = DeleteResult(status)
    /\ pc' = "idle"
    /\ UNCHANGED <<post, call, requests, task, locals, uploadReqs, pre,
                   session, salt>>
    /\ UNCHANGED clientVars

\* ---------------------------------------------------------- specification

Next ==
    \/ LoginCall
    \/ SaltResp
    \/ LoginResp
    \/ DeletePost
    \/ DeleteResp
    \/ CreatePost
    \/ SharePost
    \/ EditPost
    \/ FirstResp
    \/ \E i \in Slots : UploadCall(i)
    \/ \E i \in Slots : UploadBegin(i)
    \/ \E i \in Slots : StartResp(i)
    \/ \E i \in Slots : MultipartResp(i)
    \/ \E i \in Slots : FinishResp(i)
    \/ IssueFinalize
    \/ FinalizeResp

Spec == Init /\ [][Next]_vars

\* ----------------------------------------------------------------- claims

SendOps == {"create_post", "edit_post", "share_post"}

IsSend == call.op \in SendOps

\* The running or last call was a direct upload of attachment i.
UploadOf(i) == call.op = "upload" /\ i \in Atts /\ task[i] # "none"

\* The call has returned to the caller.
Returned == pc = "idle" /\ result.tag # "None"

\* No request has been issued by the running (or last) call.
NoRequestIssued == requests = << >> /\ \A i \in Slots : uploadReqs[i] = << >>

PreAtts == DOMAIN pre.attachments

\* C1: a direct upload of an attachment that was Uploaded returns Ok(()),
\* issues no request, and leaves the attachment Uploaded with the same id
\* and URL.
C1_UploadIdempotentOnUploaded ==
    \A i \in Atts :
        (UploadOf(i) /\ is_uploaded(pre.attachments[i]) /\ Returned) =>
            /\ result = OkUnit
            /\ NoRequestIssued
            /\ post.attachments[i] = pre.attachments[i]

\* C2: an attachment changes state only from New: an Uploaded attachment
\* stays as it is and a Failed attachment stays Failed, in every step.
C2_AttachmentStateMonotone ==
    [][\A i \in Atts :
          /\ is_uploaded(post.attachments[i]) =>
                post'.attachments[i] = post.attachments[i]
          /\ is_failed(post.attachments[i]) => is_failed(post'.attachments[i])
      ]_vars

LastRequest == requests[Len(requests)]

\* C3: when send has returned Ok, every attachment is Uploaded and the last
\* request sent carried the post's own draft flag and every attachment's id.
C3_SuccessMeansFinalized ==
    (IsSend /\ Returned /\ result.tag = "Ok") =>
        /\ \A i \in Atts : is_uploaded(post.attachments[i])
        /\ LastRequest.body.post_state = (IF post.draft THEN 0 ELSE 1)
        /\ \A i \in Atts :
              LastRequest.body.blocks[i].attachment_id
                  = post.attachments[i].attachment_id

\* The upload phase of the running (or last) send ran and every upload
\* returned Ok; the finalize request has been issued.
UploadsAllOk ==
    /\ IsSend
    /\ call.need_upload
    /\ pc \in {"finalize", "idle"}
    /\ \A i \in Atts : task[i] = "ok"

\* C4: after an upload phase in which all uploads succeeded, send has issued
\* exactly one finalize PUT to project/{project}/posts/{postId}, with
\* postState by the draft flag and with a server-assigned id (no placeholder)
\* in every attachment block, also for attachments Uploaded before the send.
C4_FinalizeCarriesEveryId ==
    UploadsAllOk =>
        /\ Len(requests) = 2
        /\ requests[2].method = "PUT"
        /\ requests[2].path
              = <<"project", call.project, "posts", Display(call.post_id)>>
        /\ requests[2].body.post_state = (IF post.draft THEN 0 ELSE 1)
        /\ \A i \in Atts :
              /\ requests[2].body.blocks[i].attachment_id \in AttachmentIds
              /\ is_uploaded(pre.attachments[i]) =>
                    requests[2].body.blocks[i].attachment_id
                        = pre.attachments[i].attachment_id

\* A request body has an attachment block with the placeholder id.
HasPlaceholder(body) ==
    \E k \in DOMAIN body.blocks :
        /\ body.blocks[k].type = "attachment"
        /\ body.blocks[k].attachment_id = DefaultAttachmentId

\* C5: with an attachment New at the start of send the first request has
\* postState 0, and no request of send has postState 1 together with a
\* placeholder attachment id.
C5_NeverPublishedWithPlaceholder ==
    IsSend =>
        /\ (NeedUpload(pre) /\ Len(requests) >= 1) =>
              requests[1].body.post_state = 0
        /\ \A k \in DOMAIN requests :
              ~(requests[k].body.post_state = 1
                    /\ HasPlaceholder(requests[k].body))

\* C6: create_post and edit_post of an empty Post return EmptyPost at once,
\* issue no request and leave the Post as it was.
C6_EmptyPostRejected ==
    (call.op \in {"create_post", "edit_post"} /\ is_empty(pre)) =>
        /\ pc = "idle"
        /\ result = Err(EmptyPost)
        /\ NoRequestIssued
        /\ post = pre

C6_Witness ==
    /\ call.op = "edit_post"
    /\ is_empty(pre)
    /\ pre.draft
    /\ Returned
    /\ result = Err(EmptyPost)

\* C7: share_post of an empty Post does not fail with EmptyPost; it issues
\* exactly one request, a POST to project/{page}/posts with shareOfPostId
\* the shared post and no blocks, and returns the post id of its response
\* (the request error when the request fails).
C7_EmptyShareValid ==
    (call.op = "share_post" /\ is_empty(pre)) =>
        /\ result # Err(EmptyPost)
        /\ Len(requests) = 1
        /\ requests[1].method = "POST"
        /\ requests[1].path = <<"project", Page, "posts">>
        /\ requests[1].body.share_of_post_id = call.shared_post
        /\ call.shared_post # None
        /\ requests[1].body.blocks = << >>
        /\ \A i \in Slots : uploadReqs[i] = << >>
        /\ pc \in {"first", "idle"}
        /\ pc = "idle" =>
              \/ result = Ok(call.post_id) /\ call.post_id \in PostIds
              \/ result = Err(Request(<<"first">>, "")) /\ call.post_id = -1

C7_Witness ==
    /\ call.op = "share_post"
    /\ is_empty(pre)
    /\ Returned
    /\ result = Ok(2)
    /\ requests[1].body.share_of_post_id = Some(1)

\* C8: send of a Post with a Failed attachment returns FailedAttachment at
\* once, whatever else the Post holds and whatever the operation; no request
\* is issued and the Post is left as it was.
C8_FailedAttachmentRejected ==
    (IsSend /\ \E i \in PreAtts : is_failed(pre.attachments[i])) =>
        /\ pc = "idle"
        /\ result = Err(FailedAttachment)
        /\ NoRequestIssued
        /\ post = pre

C8_Witness ==
    /\ call.op = "share_post"
    /\ Returned
    /\ Len(pre.attachments) = 2
    /\ is_new(pre.attachments[1])
    /\ is_failed(pre.attachments[2])
    /\ pre.headline # ""
    /\ result = Err(FailedAttachment)

\* C9: a direct upload of a Failed attachment returns FailedAttachment,
\* issues no request and leaves the attachment Failed.
C9_UploadFailedErrors ==
    \A i \in Atts :
        (UploadOf(i) /\ is_failed(pre.attachments[i])) =>
            /\ NoRequestIssued
            /\ is_failed(post.attachments[i])
            /\ \/ pc = "upload" /\ task[i] = "unpolled"
               \/ pc = "idle" /\ result = Err(FailedAttachment)

C9_Witness ==
    \E i \in Atts :
        /\ UploadOf(i)
        /\ is_failed(pre.attachments[i])
        /\ Returned
        /\ result = Err(FailedAttachment)

\* r is the create or edit request the call began with.
IsFirstRequest(r) == r.method = call.method /\ r.path = call.path

\* C10: when an upload of send fails, send returns that upload's error, and
\* the first request is the only post-level request it ever issues: no
\* finalize PUT, no delete, no second edit.
C10_UploadFailureEndsSend ==
    \A i \in Atts :
        (IsSend /\ task[i] = "err") =>
            /\ pc = "idle"
            /\ result.tag = "Err"
            /\ result.err.type = "Request"
            /\ Len(result.err.at) = 3
            /\ result.err.at[1] = "upload"
            /\ result.err.at[2] = Display(i)
            /\ \A j \in Atts : j # i => task[j] # "err"
            /\ Len(requests) = 1
            /\ IsFirstRequest(requests[1])

C10_Witness ==
    /\ IsSend
    /\ Returned
    /\ Len(post.attachments) = 2
    /\ task[1] = "multipart"
    /\ task[2] = "err"
    /\ result = Err(Request(UploadAt(2, "finish"), ""))

\* Upload i of the running (or last) call has started: its future has been
\* polled, or it has issued a request.
UploadStarted(i) ==
    task[i] \notin {"none", "unpolled"} \/ uploadReqs[i] # << >>

\* Every upload of the running (or last) send has returned Ok.
EveryUploadOk == Atts # {} /\ \A i \in Atts : task[i] = "ok"

\* C11: in every send, an upload step starts only after the first request
\* has completed with a post id; the finalize PUT is issued only when every
\* upload has returned Ok; and once the upload phase is over the finalize
\* PUT has been issued exactly when an attachment was New at the start and
\* every upload returned Ok.
C11_SendOrdering ==
    IsSend =>
        /\ \A i \in Slots :
              UploadStarted(i) =>
                  /\ Len(requests) >= 1
                  /\ IsFirstRequest(requests[1])
                  /\ call.post_id \in PostIds
        /\ Len(requests) <= 2
        /\ Len(requests) = 2 =>
              /\ requests[2]
                    = FinalizeRequest(post, call.project, call.post_id,
                                      call.shared_post)
              /\ NeedUpload(pre)
              /\ EveryUploadOk
        /\ (NeedUpload(pre) /\ EveryUploadOk /\ pc # "uploading") =>
              Len(requests) = 2

C11_Witness ==
    /\ IsSend
    /\ Returned
    /\ result.tag = "Ok"
    /\ Len(pre.attachments) = 2
    /\ \A i \in PreAtts : is_new(pre.attachments[i])
    /\ Len(requests) = 2
    /\ \A i \in Atts : Len(uploadReqs[i]) = 3

\* The path of the post the first response named.
ResponsePostPath == <<"project", call.project, "posts", Display(call.post_id)>>

\* C12: a send that returns Ok returns the post id of the first response,
\* for edit_post also when the caller asked to edit another id; and every
\* start request, finish request and finalize PUT of the send names that
\* post id.
C12_ResponseIdIsAuthoritative ==
    IsSend =>
        /\ result.tag = "Ok" =>
              /\ response = "2xx"
              /\ call.post_id \in PostIds
              /\ result = Ok(call.post_id)
        /\ \A i \in Slots :
              /\ Len(uploadReqs[i]) >= 1 =>
                    uploadReqs[i][1].body.post_id = call.post_id
              /\ Len(uploadReqs[i]) = 3 =>
                    /\ SubSeq(uploadReqs[i][3].path, 1, 4) = ResponsePostPath
                    /\ SubSeq(uploadReqs[i][3].path, 5, 6)
                          = <<"attach", "finish">>
        /\ Len(requests) = 2 =>
              /\ requests[2].method = "PUT"
              /\ requests[2].path = ResponsePostPath

C12_Witness ==
    /\ call.op = "edit_post"
    /\ call.path = <<"project", Page, "posts", Display(1)>>
    /\ call.post_id = 2
    /\ Returned
    /\ result = Ok(2)
    /\ Len(requests) = 2
    /\ requests[2].path = <<"project", Page, "posts", Display(2)>>
    /\ \E i \in Atts : Len(uploadReqs[i]) = 3

\* C13: after every step, an attachment whose upload has started is not
\* New; an upload that returned an error (at the start request, the
\* multipart upload, the finish request or in between) has ended the call
\* with an error and left its attachment Failed; and an attachment that is
\* not New is not New after the step either, whether its upload succeeded,
\* failed or was dropped when another upload failed.
C13_StartedUploadNeverPendingAgain ==
    [][\A i \in Atts :
          /\ UploadStarted(i)' => ~is_new(post'.attachments[i])
          /\ task'[i] = "err" =>
                /\ is_failed(post'.attachments[i])
                /\ pc' = "idle"
                /\ result'.tag = "Err"
          /\ ~is_new(post.attachments[i]) => ~is_new(post'.attachments[i])
      ]_vars

C13_Witness ==
    /\ IsSend
    /\ Returned
    /\ Len(pre.attachments) = 2
    /\ is_new(pre.attachments[1])
    /\ is_new(pre.attachments[2])
    /\ task[1] = "multipart"
    /\ task[2] = "err"
    /\ result = Err(Request(UploadAt(2, "start"), ""))
    /\ is_failed(post.attachments[1])
    /\ is_failed(post.attachments[2])

\* The attachmentId written for attachment block i of request k is there
\* and is the string expected for the attachment att the block was built
\* from: the string of its id when Uploaded, else the string `pending`.
AttachmentIdWritten(k, i, att, pending) ==
    LET block == to_json(requests[k].body).blocks[i]
    IN /\ block.type = "attachment"
       /\ "attachmentId" \in DOMAIN block.attachment
       /\ block.attachment.attachmentId
             = (IF is_uploaded(att) THEN UuidString(att.attachment_id)
                ELSE pending)

\* Every attachment block of the requests of a send carries the expected
\* attachmentId: the first request is built from the Post as send found
\* it, the finalize request from the Post after the uploads.
AttachmentIdsWritten(pending) ==
    IsSend =>
        /\ Len(requests) >= 1 =>
              \A i \in PreAtts :
                  AttachmentIdWritten(1, i, pre.attachments[i], pending)
        /\ Len(requests) = 2 =>
              \A i \in Atts :
                  AttachmentIdWritten(2, i, post.attachments[i], pending)

\* C14 as claimed: in every request of a send, the attachment block of an
\* attachment that is not Uploaded has an attachmentId field equal to the
\* empty string, and that of an Uploaded attachment the string of its id.
C14_PendingIdIsEmptyString == AttachmentIdsWritten("")

\* C14, amended: in every request of a send, the attachment block of an
\* attachment that is not Uploaded has an attachmentId field, never left
\* out or null, equal to the string of the nil UUID that
\* AttachmentId::default() is; that of an Uploaded attachment has the
\* string of its id.
C14_PendingIdIsNilUuid ==
    AttachmentIdsWritten(UuidString(DefaultAttachmentId))

C14_Witness ==
    /\ IsSend
    /\ Len(requests) = 2
    /\ is_new(pre.attachments[1])
    /\ is_uploaded(post.attachments[1])
    /\ to_json(requests[1].body).blocks[1].attachment.attachmentId
          = "00000000-0000-0000-0000-000000000000"
    /\ to_json(requests[2].body).blocks[1].attachment.attachmentId
          = UuidString(post.attachments[1].attachment_id)
    /\ post.attachments[1].attachment_id = 2

\* ------------------------------------------------- markdown specification

MaxMarkdownLen == 6

MarkdownChars == {"a", "b", "\n"}

\* "a\n\nb\n\nc"
ThreeParagraphs == <<"a", "\n", "\n", "b", "\n", "\n", "c">>

\* Posts without attachments, with every markdown text up to the bound.
MarkdownPosts ==
    [headline : Headlines,
     markdown : SeqsUpTo(MarkdownChars, MaxMarkdownLen) \cup {ThreeParagraphs},
     draft : {FALSE},
     attachments : {<< >>}]

InitMarkdown ==
    /\ post \in MarkdownPosts
    /\ pc = "idle"
    /\ call = NoCall
    /\ requests = << >>
    /\ task = [i \in Slots |-> "none"]
    /\ locals = [i \in Slots |-> NoLocals]
    /\ uploadReqs = [i \in Slots |-> << >>]
    /\ result = NoResult
    /\ pre = post
    /\ session = None
    /\ salt = None
    /\ response = ""
    /\ NewClient

\* Log in, then create the post.
NextMarkdown ==
    \/ LoginCall
    \/ SaltResp
    \/ LoginResp
    \/ CreatePost
    \/ FirstResp

SpecMarkdown == InitMarkdown /\ [][NextMarkdown]_vars

\* The texts of a sequence of blocks, joined with "\n\n".
RECURSIVE JoinContents(_)
JoinContents(blocks) ==
    IF Len(blocks) = 0 THEN << >>
    ELSE IF Len(blocks) = 1 THEN blocks[1].content
    ELSE blocks[1].content \o <<"\n", "\n">> \o JoinContents(Tail(blocks))

\* The text s has a blank line ("\n\n") in it.
HasBlankLine(s) ==
    \E k \in 1..(Len(s) - 1) : s[k] = "\n" /\ s[k + 1] = "\n"

\* C15: the request of create_post has no markdown block for empty
\* markdown; for non-empty markdown its blocks are markdown blocks, none
\* with a blank line inside, whose contents in order joined with "\n\n"
\* are the markdown; and "a\n\nb\n\nc" gives the blocks "a", "b", "c".
C15_MarkdownSplitIntoParagraphs ==
    (call.op = "create_post" /\ Len(requests) = 1) =>
        LET blocks == requests[1].body.blocks
        IN /\ pre.markdown = << >> => blocks = << >>
           /\ pre.markdown # << >> =>
                 /\ Len(blocks) >= 1
                 /\ \A k \in DOMAIN blocks :
                       /\ blocks[k].type = "markdown"
                       /\ ~HasBlankLine(blocks[k].content)
                 /\ JoinContents(blocks) = pre.markdown
           /\ pre.markdown = ThreeParagraphs =>
                 blocks = <<[type |-> "markdown", content |-> <<"a">>],
                            [type |-> "markdown", content |-> <<"b">>],
                            [type |-> "markdown", content |-> <<"c">>]>>

C15_Witness ==
    /\ call.op = "create_post"
    /\ Returned
    /\ result.tag = "Ok"
    /\ pre.markdown = ThreeParagraphs
    /\ Len(requests[1].body.blocks) = 3
    /\ requests[1].body.blocks[2].content = <<"b">>

\* ----------------------------------------------------- salt specification

MaxSaltLen == 4

\* Characters of salts: values 0, 1, 16 and 48, the two URL-safe
\* characters and the two standard ones.
SaltChars == {"A", "B", "Q", "w", "-", "_", "+", "/"}

\* "dg6y2aIj_iKzcgaL_MM8_Q" (client.rs 156)
FixtureSalt ==
    <<
      "d", "g", "6", "y", "2", "a", "I", "j", "_", "i", "K",
      "z", "c", "g", "a", "L", "_", "M", "M", "8", "_", "Q"
    >>

\* "dg6y2aIjAiKzcgaLAMM8AQ" (client.rs 157)
FixtureSaltWithA ==
    <<
      "d", "g", "6", "y", "2", "a", "I", "j", "A", "i", "K",
      "z", "c", "g", "a", "L", "A", "M", "M", "8", "A", "Q"
    >>

\* Every salt up to the bound, and the fixture.
SaltStrings == SeqsUpTo(SaltChars, MaxSaltLen) \cup {FixtureSalt}

InitSalt ==
    /\ post = [headline |-> "t", markdown |-> << >>, draft |-> FALSE,
               attachments |-> << >>]
    /\ pc = "idle"
    /\ call = NoCall
    /\ requests = << >>
    /\ task = [i \in Slots |-> "none"]
    /\ locals = [i \in Slots |-> NoLocals]
    /\ uploadReqs = [i \in Slots |-> << >>]
    /\ result = NoResult
    /\ pre = post
    /\ session = None
    /\ salt = None
    /\ response = ""
    /\ NewClient

\* login, answered with any salt.
NextSalt ==
    \/ LoginCall
    \/ SaltRespIn(SaltStrings)
    \/ LoginResp

SpecSalt == InitSalt /\ [][NextSalt]_vars

\* What login made of the salt it holds: the bytes it put into the hash of
\* the login request, or the decode error it returned.
SaltDecoded ==
    IF Len(requests) = 2
    THEN DecodeOk(requests[2].body.client_hash.salt)
    ELSE DecodeErr(result.err.at[1])

\* Two decodings agree: both fail, or both give the same bytes.
SameDecoding(x, y) == x.ok = y.ok /\ x.bytes = y.bytes

HasAny(s, chars) == \E k \in DOMAIN s : s[k] \in chars

\* C16 as claimed: what login makes of a salt is the standard unpadded
\* decoding of the salt with '-' and '_' replaced by 'A'; for a salt
\* without '-', '_', '+' and '/' that is the URL-safe unpadded decoding of
\* the salt; for a salt with '-' or '_' it is the URL-safe unpadded
\* decoding of the salt after the replacement; the fixture decodes like
\* "dg6y2aIjAiKzcgaLAMM8AQ".
C16_DecodeSaltAsClaimed ==
    (call.op = "login" /\ salt # None) =>
        LET s == salt[1]
        IN /\ SameDecoding(SaltDecoded,
                           decode_config(ReplaceWithA(s), StdAlphabet))
           /\ ~HasAny(s, {"-", "_", "+", "/"}) =>
                 SameDecoding(SaltDecoded, decode_config(s, UrlAlphabet))
           /\ HasAny(s, {"-", "_"}) =>
                 SameDecoding(SaltDecoded,
                              decode_config(ReplaceWithA(s), UrlAlphabet))
           /\ s = FixtureSalt =>
                 /\ SaltDecoded.ok
                 /\ SameDecoding(SaltDecoded,
                                 decode_config(FixtureSaltWithA, UrlAlphabet))

\* C16, amended: as claimed, but a salt with '-' or '_' is decoded like
\* the URL-safe unpadded decoding of the salt after the replacement only
\* when it has neither '+' nor '/' in it.
C16_DecodeSaltWithoutStandardChars ==
    (call.op = "login" /\ salt # None) =>
        LET s == salt[1]
        IN /\ SameDecoding(SaltDecoded,
                           decode_config(ReplaceWithA(s), StdAlphabet))
           /\ ~HasAny(s, {"-", "_", "+", "/"}) =>
                 SameDecoding(SaltDecoded, decode_config(s, UrlAlphabet))
           /\ (HasAny(s, {"-", "_"}) /\ ~HasAny(s, {"+", "/"})) =>
                 SameDecoding(SaltDecoded,
                              decode_config(ReplaceWithA(s), UrlAlphabet))
           /\ s = FixtureSalt =>
                 /\ SaltDecoded.ok
                 /\ SameDecoding(SaltDecoded,
                                 decode_config(FixtureSaltWithA, UrlAlphabet))

C16_Witness ==
    /\ call.op = "login"
    /\ salt = Some(FixtureSalt)
    /\ Len(requests) = 2
    /\ Len(SaltDecoded.bytes) = 16
    /\ SaltDecoded.bytes[1] = 118
    /\ Returned
    /\ session # None

\* ------------------------------------------- request order and returns

\* The requests upload i has issued are the first of its three, in order,
\* each once.
UploadPathInOrder(i) ==
    /\ Len(uploadReqs[i]) <= 3
    /\ Len(uploadReqs[i]) >= 1 =>
          uploadReqs[i][1].path = <<"trpc/posts.attachment.start">>
    /\ Len(uploadReqs[i]) >= 2 => uploadReqs[i][2].form # {}
    /\ Len(uploadReqs[i]) = 3 => uploadReqs[i][3].path[5] = "attach"

\* The post-level requests of the call are the first of its protocol's, in
\* order, each once.
CallPathInOrder ==
    CASE IsSend ->
            /\ Len(requests) <= 2
            /\ Len(requests) >= 1 => IsFirstRequest(requests[1])
            /\ Len(requests) = 2 =>
                  /\ requests[2].method = "PUT"
                  /\ requests[2].path = ResponsePostPath
      [] call.op = "login" ->
            /\ Len(requests) \in 1..2
            /\ requests[1] = SaltRequest(Email)
            /\ Len(requests) = 2 => requests[2].path = <<"login">>
      [] call.op = "delete_post" ->
            requests = <<DeleteRequest(call.project, call.post_id)>>
      [] OTHER -> requests = << >>

\* How many requests the path of the error `at` has issued when its step
\* fails.
IssuedWhenFailing(at) ==
    CASE at = <<"first">> -> 1
      [] at = <<"finalize">> -> 2
      [] at = <<"salt">> -> 1
      [] at = <<"login">> -> 2
      [] at = <<"delete">> -> 1
      [] at[Len(at)] = "start" -> 1
      [] at[Len(at)] = "mime" -> 1
      [] at[Len(at)] = "multipart" -> 2
      [] at[Len(at)] = "finish" -> 3

\* C17: in every call of login, send, upload and delete_post the requests
\* issued are the protocol's, each at most once and in order; a failed
\* response ends the call with an error at once; and the request whose
\* failure the call returned is the last one its path has issued.
C17_NoInternalRetry ==
    /\ CallPathInOrder
    /\ \A i \in Slots : UploadPathInOrder(i)
    /\ response \in JsonFailures =>
          /\ pc = "idle"
          /\ result.tag = "Err"
          /\ result.err.type = "Request"
    /\ (result.tag = "Err" /\ result.err.type = "Request") =>
          /\ pc = "idle"
          /\ IF result.err.at[1] = "upload"
             THEN /\ \E i \in Atts :
                        /\ result.err.at[2] = Display(i)
                        /\ task[i] = "err"
                        /\ Len(uploadReqs[i]) = IssuedWhenFailing(result.err.at)
                  /\ IsSend => Len(requests) = 1
             ELSE Len(requests) = IssuedWhenFailing(result.err.at)

C17_Witness ==
    /\ call.op = "login"
    /\ Returned
    /\ response = "status"
    /\ result = Err(Request(<<"login">>, ""))
    /\ Len(requests) = 2
    /\ session = None

\* C18: once send has returned, with Ok or with an error, no step issues a
\* start, multipart or finish request for it or changes an attachment: the
\* Post stays as it is and the upload logs stay as they are until the next
\* call begins and clears them.
C18_NoUploadOutlivesSend ==
    [][(IsSend /\ Returned) =>
          /\ post' = post
          /\ \A i \in Slots : uploadReqs'[i] \in {uploadReqs[i], << >>}
          /\ (\E i \in Slots : uploadReqs'[i] # uploadReqs[i]) => call' # call
      ]_vars

C18_Witness ==
    /\ IsSend
    /\ Returned
    /\ result.tag = "Err"
    /\ Len(post.attachments) = 2
    /\ task[1] = "err"
    /\ task[2] = "finish"
    /\ Len(uploadReqs[2]) = 3

\* The standard unpadded decoding of the salt login holds, '-' and '_'
\* taken as 'A'.
SaltStandardDecoding == decode_config(ReplaceWithA(salt[1]), StdAlphabet)

\* C19: login issues the salt request first and the login request second;
\* a Session exists only after a login whose two requests both succeeded;
\* a salt that does not decode makes login return Base64Decode with the
\* login request never sent; and create, edit, share and delete calls are
\* made only with a Session.
C19_LoginBeforeSession ==
    /\ call.op = "login" =>
          /\ Len(requests) >= 1
          /\ requests[1] = SaltRequest(Email)
          /\ Len(requests) = 2 =>
                /\ salt # None
                /\ SaltStandardDecoding.ok
                /\ requests[2]
                      = LoginRequest(Email,
                            ClientHash(Password, SaltStandardDecoding.bytes))
          /\ (salt # None /\ ~SaltStandardDecoding.ok) =>
                /\ Len(requests) = 1
                /\ pc = "idle"
                /\ result = Err(Base64Decode(SaltStandardDecoding.error))
                /\ session = None
          /\ session # None =>
                /\ Len(requests) = 2
                /\ pc = "idle"
                /\ response = "2xx"
                /\ result = OkUnit
          /\ (Returned /\ result = OkUnit) => session # None
    /\ call.op = "" => session = None
    /\ (IsSend \/ call.op = "delete_post") => session # None

C19_Witness ==
    /\ call.op = "login"
    /\ Returned
    /\ salt = Some(<<"Q", "/">>)
    /\ result = Err(Base64Decode("InvalidLastSymbol"))
    /\ Len(requests) = 1
    /\ session = None

\* C20: delete_post issues one request and no other, a DELETE to
\* project/{page}/posts/{id}; once it has returned, it returned Ok(())
\* exactly when the response was 2xx, and a request error when the
\* connection failed or the status was not 2xx; the Post is not touched.
C20_DeleteOneRequest ==
    call.op = "delete_post" =>
        /\ Len(requests) = 1
        /\ requests[1].method = "DELETE"
        /\ requests[1].path
              = <<"project", call.project, "posts", Display(call.post_id)>>
        /\ call.project = Page
        /\ call.post_id \in PostIds
        /\ \A i \in Slots : uploadReqs[i] = << >>
        /\ post = pre
        /\ pc \in {"delete", "idle"}
        /\ pc = "delete" => (result = NoResult /\ response = "")
        /\ pc = "idle" =>
              /\ response \in {"2xx", "connect", "status"}
              /\ result = OkUnit <=> response = "2xx"
              /\ response \in {"connect", "status"} =>
                    result = Err(Request(<<"delete">>, ""))

C20_Witness ==
    /\ call.op = "delete_post"
    /\ Returned
    /\ response = "status"
    /\ result = Err(Request(<<"delete">>, ""))
    /\ requests[1].path = <<"project", "eggbug", "posts", "2">>

\* --------------------------------------------------------- the login hash

\* C21: the client_hash of the login request is the standard Base64
\* encoding of a 128-byte key derived by PBKDF2 with HMAC-SHA384 from the
\* password and the decoded salt in 200,000 rounds.
C21_ClientHashDerivation ==
    (call.op = "login" /\ Len(requests) = 2) =>
        LET hash == requests[2].body.client_hash
        IN /\ requests[2].method = "POST"
           /\ requests[2].path = <<"login">>
           /\ requests[2].body.email = Email
           /\ hash.encoding = "base64::encode"
           /\ hash.prf = "Hmac<Sha384>"
           /\ hash.password = Password
           /\ salt # None
           /\ SaltStandardDecoding.ok
           /\ hash.salt = SaltStandardDecoding.bytes
           /\ hash.rounds = 200000
           /\ hash.length = 128

C21_Witness ==
    /\ call.op = "login"
    /\ Returned
    /\ session # None
    /\ salt = Some(<<"_", "w">>)
    /\ requests[2].body.client_hash.salt = <<3>>
    /\ requests[2].body.client_hash.rounds = 200000

\* ------------------------------------------------- uploads across sends

\* The start requests among the requests upload i has issued.
StartsOf(i) ==
    {k \in DOMAIN uploadReqs[i] :
        /\ "path" \in DOMAIN uploadReqs[i][k]
        /\ uploadReqs[i][k].path = <<"trpc/posts.attachment.start">>}

\* C22: a step issues the start request of an attachment only when the
\* attachment is New, and leaves it not New; an attachment that is not New
\* never becomes New; so over any sequence of calls the upload of an
\* attachment is started at most once.  A send that returned Ok has issued
\* exactly one start request for each attachment New when it began, and an
\* attachment Uploaded when a call began causes no upload request.
C22_UploadStartedAtMostOnce ==
    [][\A i \in Slots :
          /\ (uploadReqs[i] = << >> /\ uploadReqs'[i] # << >>) =>
                /\ i \in Atts
                /\ is_new(post.attachments[i])
                /\ ~is_new(post'.attachments[i])
          /\ (i \in Atts /\ ~is_new(post.attachments[i])) =>
                ~is_new(post'.attachments[i])
          /\ StartsOf(i)' \subseteq {1}
          /\ (i \in PreAtts' /\ is_uploaded(pre'.attachments[i])) =>
                uploadReqs'[i] = << >>
          /\ (IsSend' /\ Returned' /\ result'.tag = "Ok" /\ i \in PreAtts') =>
                (is_new(pre'.attachments[i]) <=> StartsOf(i)' = {1})
      ]_vars

C22_Witness ==
    /\ IsSend
    /\ Returned
    /\ result.tag = "Ok"
    /\ Len(pre.attachments) = 2
    /\ is_uploaded(pre.attachments[1])
    /\ is_new(pre.attachments[2])
    /\ uploadReqs[1] = << >>
    /\ Len(uploadReqs[2]) = 3
    /\ StartsOf(2) = {1}

\* The Post as send found it passes validation and has nothing to upload:
\* every attachment is Uploaded, and the Post is not empty or is shared.
NothingToUpload ==
    /\ IsSend
    /\ \A i \in PreAtts : is_uploaded(pre.attachments[i])
    /\ ~is_empty(pre) \/ call.shared_post # None

\* C23: a send of a valid Post without a New attachment issues exactly one
\* request, the create POST or edit PUT, with postState by the Post's
\* draft flag; it runs no upload and issues no finalize PUT; and it leaves
\* the Post, with every attachment's state, id and URL, as it was.
C23_NoPendingSingleRequest ==
    NothingToUpload =>
        /\ Len(requests) = 1
        /\ IsFirstRequest(requests[1])
        /\ requests[1].body.post_state = (IF pre.draft THEN 0 ELSE 1)
        /\ \A i \in Slots : uploadReqs[i] = << >> /\ task[i] = "none"
        /\ post = pre
        /\ pc \in {"first", "idle"}
        /\ pc = "idle" =>
              \/ result = Ok(call.post_id) /\ response = "2xx"
              \/ result = Err(Request(<<"first">>, ""))

C23_Witness ==
    /\ call.op = "edit_post"
    /\ NothingToUpload
    /\ Returned
    /\ result.tag = "Ok"
    /\ Len(pre.attachments) = 2
    /\ ~pre.draft
    /\ requests[1].body.post_state = 1
    /\ post.attachments[1] = InnerUploaded([attachment_id |-> 1, url |-> CdnUrl(1)])

\* --------------------------------------------------- upload specification

\* Upload targets and form fields a start response may name.
UploadUrls == {UploadUrl, "https://other.invalid/"}

FieldNames == {"key", "policy", "acl"}

AnyStartResponses ==
    [attachment_id : AttachmentIds, url : UploadUrls,
     required_fields : SUBSET FieldNames]

InitUpload ==
    /\ post \in [headline : {"t"}, markdown : {<< >>}, draft : {FALSE},
                 attachments : SeqsUpTo(Inners, MaxAttachments)]
    /\ pc = "idle"
    /\ call = NoCall
    /\ requests = << >>
    /\ task = [i \in Slots |-> "none"]
    /\ locals = [i \in Slots |-> NoLocals]
    /\ uploadReqs = [i \in Slots |-> << >>]
    /\ result = NoResult
    /\ pre = post
    /\ session = None
    /\ salt = None
    /\ response = ""
    /\ NewClient

\* Uploads of single attachments, answered with any start response.
NextUpload ==
    \/ \E i \in Slots : UploadCall(i)
    \/ \E i \in Slots : UploadBegin(i)
    \/ \E i \in Slots : StartRespIn(i, AnyStartResponses)
    \/ \E i \in Slots : MultipartResp(i)
    \/ \E i \in Slots : FinishResp(i)

SpecUpload == InitUpload /\ [][NextUpload]_vars

\* How many requests an upload has issued when it waits at a step.
IssuedAt(step) ==
    CASE step = "start" -> 1
      [] step = "multipart" -> 2
      [] step = "finish" -> 3

\* C24: after every step, the requests of an upload are, in this order,
\* the start request, the multipart upload to the URL of the start
\* response with its required fields and the file part, and the finish
\* request for the attachment id of the start response, each issued only
\* when the one before was answered; and a step makes an attachment
\* Uploaded only by taking the finish response, whose id and URL the
\* attachment then has.
C24_UploadStepsInOrder ==
    [][\A i \in Slots :
          LET reqs == uploadReqs'[i]
              held == locals'[i]
          IN /\ Len(reqs) <= 3
             /\ task'[i] \in {"start", "multipart", "finish"} =>
                   /\ Len(reqs) = IssuedAt(task'[i])
                   /\ ~is_uploaded(post'.attachments[i])
             /\ Len(reqs) >= 1 =>
                   /\ reqs[1].method = "POST"
                   /\ reqs[1].path = <<"trpc/posts.attachment.start">>
                   /\ reqs[1].body.post_id = call'.post_id
                   /\ reqs[1].body.project_handle = call'.project
             /\ Len(reqs) >= 2 =>
                   /\ held.attachment_id # None
                   /\ reqs[2].method = "POST"
                   /\ reqs[2].url = held.url
                   /\ reqs[2].form = held.required_fields \cup {"file"}
             /\ Len(reqs) = 3 =>
                   reqs[3]
                       = [method |-> "POST",
                          path |-> <<"project", call'.project, "posts",
                                     Display(call'.post_id), "attach",
                                     "finish",
                                     Display(held.attachment_id[1])>>,
                          url |-> RequestUrl(base_url,
                                     <<"project", call'.project, "posts",
                                       Display(call'.post_id), "attach",
                                       "finish",
                                       Display(held.attachment_id[1])>>)]
             /\ (i \in Atts /\ ~is_uploaded(post.attachments[i])
                     /\ is_uploaded(post'.attachments[i])) =>
                   /\ task[i] = "finish"
                   /\ task'[i] = "ok"
                   /\ Len(uploadReqs[i]) = 3
                   /\ reqs = uploadReqs[i]
                   /\ held.finished # None
                   /\ post'.attachments[i].attachment_id
                         = held.finished[1].attachment_id
                   /\ post'.attachments[i].url = held.finished[1].url
      ]_vars

C24_Witness ==
    /\ call.op = "upload"
    /\ Returned
    /\ result = OkUnit
    /\ is_new(pre.attachments[1])
    /\ Len(uploadReqs[1]) = 3
    /\ uploadReqs[1][2].url = "https://other.invalid/"
    /\ uploadReqs[1][2].form = {"acl", "key", "file"}
    /\ locals[1].attachment_id = Some(1)
    /\ uploadReqs[1][3].path[7] = "1"
    /\ post.attachments[1] = InnerUploaded([attachment_id |-> 2, url |-> CdnUrl(2)])

\* ------------------------------------------------- interleaved uploads

\* What upload leaves in an attachment when it runs alone, is answered
\* fin by the finish request and returns Ok.
UploadAlone(att, fin) ==
    IF UploadMatch(att) = "proceed" THEN InnerUploaded(fin[1])
    ELSE Replaced(att)

\* C25: a step changes at most one attachment, and only the one whose
\* upload takes the step; and whatever the order of the steps, when every
\* upload of a send has returned Ok each attachment is what its own
\* upload, run alone with the same responses, leaves, the finalize PUT
\* carries the payload of that Post, and send returns Ok with the post id
\* once the PUT is answered 2xx.
C25_InterleavingsAgree ==
    [][/\ \A i \in Atts :
             post'.attachments[i] # post.attachments[i] =>
                 /\ task'[i] # task[i]
                 /\ \A j \in Atts : j # i =>
                       /\ post'.attachments[j] = post.attachments[j]
                       /\ task'[j] = task[j]
       /\ (IsSend' /\ call'.need_upload /\ \A i \in Atts : task'[i] = "ok") =>
             /\ \A i \in Atts :
                   post'.attachments[i]
                       = UploadAlone(pre'.attachments[i], locals'[i].finished)
             /\ Len(requests') = 2 =>
                   requests'[2].body
                       = as_api(post', FALSE, call'.shared_post)
             /\ response' = "2xx" =>
                   (pc' = "idle" => result' = Ok(call'.post_id))
      ]_vars

C25_Witness ==
    /\ IsSend
    /\ Returned
    /\ result.tag = "Ok"
    /\ Len(pre.attachments) = 2
    /\ is_new(pre.attachments[1])
    /\ is_new(pre.attachments[2])
    /\ post.attachments[1].attachment_id = 2
    /\ post.attachments[2].attachment_id = 1
    /\ Len(requests) = 2

\* ---------------------------------------------------- retry specification

\* Posts as the caller builds them: every attachment New.
FreshPosts ==
    [headline : Headlines, markdown : Markdowns, draft : BOOLEAN,
     attachments :
         SeqsUpTo({InnerNew(ct) : ct \in ContentTypes}, MaxAttachments)]

InitRetry ==
    /\ post \in FreshPosts
    /\ pc = "idle"
    /\ call = NoCall
    /\ requests = << >>
    /\ task = [i \in Slots |-> "none"]
    /\ locals = [i \in Slots |-> NoLocals]
    /\ uploadReqs = [i \in Slots |-> << >>]
    /\ result = NoResult
    /\ pre = post
    /\ session = None
    /\ salt = None
    /\ response = ""
    /\ NewClient

\* Log in, then send the same Post again and again.
NextRetry ==
    \/ LoginCall
    \/ SaltResp
    \/ LoginResp
    \/ CreatePost
    \/ SharePost
    \/ EditPost
    \/ FirstResp
    \/ \E i \in Slots : UploadBegin(i)
    \/ \E i \in Slots : StartResp(i)
    \/ \E i \in Slots : MultipartResp(i)
    \/ \E i \in Slots : FinishResp(i)
    \/ IssueFinalize
    \/ FinalizeResp

SpecRetry == InitRetry /\ [][NextRetry]_vars

HasFailed(p) == \E i \in DOMAIN p.attachments : is_failed(p.attachments[i])

\* C26: a send that returns an error from its upload phase leaves a Failed
\* attachment in the Post; outside an upload phase no step changes a Post
\* with a Failed attachment; and every send begun on such a Post returns
\* FailedAttachment at once, with no request.
C26_FailedSendBlocksLaterSends ==
    [][/\ (IsSend /\ pc = "uploading" /\ pc' = "idle") =>
             /\ result'.tag = "Err"
             /\ HasFailed(post')
       /\ (HasFailed(post) /\ pc # "uploading") => post' = post
       /\ (pc = "idle" /\ HasFailed(post) /\ IsSend') =>
             /\ pc' = "idle"
             /\ result' = Err(FailedAttachment)
             /\ requests' = << >>
             /\ \A i \in Slots : uploadReqs'[i] = << >>
      ]_vars

C26_Witness ==
    /\ call.op = "edit_post"
    /\ Returned
    /\ result = Err(FailedAttachment)
    /\ requests = << >>
    /\ Len(post.attachments) = 2
    /\ is_failed(post.attachments[1])
    /\ is_uploaded(post.attachments[2])
    /\ post = pre

\* ------------------------------------------------------------ the payload

\* C27: every request of a share_post, the first POST and the finalize PUT
\* alike, is written with shareOfPostId the shared post id; no request of
\* create_post or edit_post is written with a shareOfPostId field.
C27_ShareReferenceCarried ==
    IsSend =>
        \A k \in DOMAIN requests :
            LET json == to_json(requests[k].body)
            IN IF call.op = "share_post"
               THEN /\ call.shared_post # None
                    /\ "shareOfPostId" \in DOMAIN json
                    /\ json.shareOfPostId = call.shared_post[1]
               ELSE "shareOfPostId" \notin DOMAIN json

C27_Witness ==
    /\ call.op = "share_post"
    /\ call.shared_post = Some(2)
    /\ Returned
    /\ result = Ok(1)
    /\ Len(requests) = 2
    /\ to_json(requests[1].body).shareOfPostId = 2
    /\ to_json(requests[2].body).shareOfPostId = 2

\* The blocks are those of the Post p: one attachment block for each
\* attachment, in the order of the list and with its id (the default id
\* unless Uploaded), and after them only markdown blocks, whose contents
\* joined are the markdown of p.
BlocksOf(blocks, p) ==
    LET n == Len(p.attachments)
    IN /\ Len(blocks) >= n
       /\ \A j \in DOMAIN blocks :
             IF j <= n
             THEN /\ blocks[j].type = "attachment"
                  /\ blocks[j].attachment_id
                        = (IF is_uploaded(p.attachments[j])
                           THEN p.attachments[j].attachment_id
                           ELSE DefaultAttachmentId)
             ELSE blocks[j].type = "markdown"
       /\ (Len(blocks) = n) <=> (p.markdown = << >>)
       /\ JoinContents(SubSeq(blocks, n + 1, Len(blocks))) = p.markdown

\* C28: in every request of a send the blocks are one attachment block per
\* attachment of the Post, whatever its state, in list order, followed by
\* the markdown blocks: the first request against the Post as send found
\* it, the finalize PUT against the Post after the uploads.
C28_AttachmentBlocksFirst ==
    IsSend =>
        /\ Len(requests) >= 1 => BlocksOf(requests[1].body.blocks, pre)
        /\ Len(requests) = 2 => BlocksOf(requests[2].body.blocks, post)

C28_Witness ==
    /\ IsSend
    /\ Len(requests) = 2
    /\ Len(pre.attachments) = 2
    /\ pre.attachments[1] = InnerUploaded([attachment_id |-> 2, url |-> CdnUrl(2)])
    /\ is_new(pre.attachments[2])
    /\ pre.markdown = <<"a", "\n", "\n", "b">>
    /\ Len(requests[1].body.blocks) = 4
    /\ requests[1].body.blocks[1].attachment_id = 2
    /\ requests[1].body.blocks[2].attachment_id = DefaultAttachmentId
    /\ requests[1].body.blocks[4] = [type |-> "markdown", content |-> <<"b">>]

\* ---------------------------------------------------------- reading posts

\* Longest block list of a post read from the server.
MaxBlocks == 2

\* Longest related_projects list of a post read from the server.
MaxRelated == 2

\* Project handles the server may name.
Handles == {Page, "other"}

\* de::PostingProject, reduced to its handle.
PostingProject(h) == [handle |-> h]

\* de::Attachment values: the id and the file URL are independent fields.
DeAttachments ==
    [attachment_id : AttachmentIds, file_url : {CdnUrl(a) : a \in AttachmentIds}]

\* de::Block: Attachment { attachment } or Markdown { markdown }.
DeBlocks ==
    {[type |-> "attachment", attachment |-> a] : a \in DeAttachments}
        \cup {[type |-> "markdown", content |-> <<"a">>]}

\* Post states the server reports: 0 is a draft, 1 a published post.
DeStates == {0, 1, 2}

\* de::Post, with the fields the conversion copies verbatim reduced to
\* headline and plain_text_body, and an empty share_tree.
DePosts ==
    [post_id : PostIds,
     state : DeStates,
     blocks : SeqsUpTo(DeBlocks, MaxBlocks),
     headline : Headlines,
     plain_text_body : {<< >>, <<"a">>},
     posting_project : {PostingProject(Page)},
     related_projects :
        SeqsUpTo({PostingProject(h) : h \in Handles}, MaxRelated)]

\* PostPage bodies: an empty page, or a page of one post.
PostPages == {<< >>} \cup {<<d>> : d \in DePosts}

\* From<de::Attachment> for Attachment (post.rs 273-283).
AttachmentFrom(api) ==
    InnerUploaded([attachment_id |-> api.attachment_id, url |-> api.file_url])

\* The filter_map over api.blocks (post.rs 244-253).
RECURSIVE AttachmentsFrom(_)
AttachmentsFrom(blocks) ==
    IF blocks = << >> THEN << >>
    ELSE (IF Head(blocks).type = "attachment"
          THEN <<AttachmentFrom(Head(blocks).attachment)>>
          ELSE << >>) \o AttachmentsFrom(Tail(blocks))

\* The handles of api.related_projects, in order.
RelatedHandles(api) ==
    [k \in 1..Len(api.related_projects) |-> api.related_projects[k].handle]

\* The related_projects of PostMetadata (post.rs 228-238).
RelatedProjects(api) ==
    IF RelatedHandles(api) = << >>
    THEN <<api.posting_project.handle>>
    ELSE RelatedHandles(api)

\* The converted Post: the fields of Posts and its metadata, reduced to
\* locations.id, related_projects and posting_project_id.
ConvertedPost(api, related) ==
    [metadata |->
        Some([locations |-> [id |-> api.post_id],
              related_projects |-> related,
              posting_project_id |-> api.posting_project.handle]),
     headline |-> api.headline,
     markdown |-> api.plain_text_body,
     draft |-> (api.state = 0),
     attachments |-> AttachmentsFrom(api.blocks)]

\* The conversion that copies the server's related_projects as they are.
PostFrom_NoFallback(api) == ConvertedPost(api, RelatedHandles(api))

\* From<de::Post> for Post (post.rs 215-271).
PostFrom(api) == ConvertedPost(api, RelatedProjects(api))

\* From<PostPage> for Vec<Post>.
PostsFrom(items) == [k \in 1..Len(items) |-> PostFrom(items[k])]

\* format!("project/{}/posts", project), segment by segment.
PostsPath(project) == <<"project", project, "posts">>

\* The request of Client::get_posts_page (client.rs 101-104).
PageRequest(base, project, n) ==
    [method |-> "GET", path |-> PostsPath(project),
     query |-> [page |-> Display(n)],
     url |-> RequestUrl(base, PostsPath(project))]

\* Client::get_posts_page up to its await (client.rs 100-105).
GetPostsPage ==
    /\ pc = "idle"
    /\ \E n \in {0, 1} :
          requests' = <<PageRequest(base_url, Page, n)>>
    /\ call' = [NoCall EXCEPT !.op = "get_posts_page", !.project = Page]
    /\ pc' = "page"
    /\ result' = NoResult
    /\ response' = ""
    /\ posts_page' = None
    /\ UNCHANGED <<post, task, locals, uploadReqs, pre, session, salt,
                   base_url, custom_url>>

\* The response to the page request (client.rs 105-109), its body drawn
\* from pages.
PageRespIn(pages) ==
    /\ pc = "page"
    /\ \/ \E c \in JsonFailures :
            /\ response' = c
            /\ result' = Err(Request(<<"page">>, c))
            /\ UNCHANGED posts_page
       \/ \E items \in pages :
            /\ response' = "2xx"
            /\ posts_page' = Some(items)
            /\ result' = Ok(PostsFrom(items))
    /\ pc' = "idle"
    /\ UNCHANGED <<post, call, requests, task, locals, uploadReqs, pre,
                   session, salt, base_url, custom_url>>

PageResp == PageRespIn(PostPages)

\* The caller only reads pages.
InitConvert ==
    /\ post = [headline |-> "", markdown |-> << >>, draft |-> FALSE,
               attachments |-> << >>]
    /\ pc = "idle"
    /\ call = NoCall
    /\ requests = << >>
    /\ task = [i \in Slots |-> "none"]
    /\ locals = [i \in Slots |-> NoLocals]
    /\ uploadReqs = [i \in Slots |-> << >>]
    /\ result = NoResult
    /\ pre = post
    /\ session = None
    /\ salt = None
    /\ response = ""
    /\ NewClient

NextConvert ==
    \/ GetPostsPage
    \/ PageResp

SpecConvert == InitConvert /\ [][NextConvert]_vars

\* get_posts_page has returned the posts of the page in posts_page.
PageRead ==
    /\ call.op = "get_posts_page"
    /\ pc = "idle"
    /\ result.tag = "Ok"

\* The positions of the attachment blocks of a block list.
AttachmentPositions(blocks) ==
    {j \in 1..Len(blocks) : blocks[j].type = "attachment"}

\* C29: a post read from the server converts to a Post with metadata whose
\* locations.id is the server post id; its attachments are the attachment
\* blocks, in order and without the markdown blocks, each Uploaded with the
\* server's attachment id and file URL; draft holds exactly when the server
\* state is 0; related_projects is never empty, and is the posting
\* project's handle when the server list is empty.
C29_ConvertedPost ==
    PageRead =>
        /\ Len(result.value) = Len(posts_page[1])
        /\ \A k \in 1..Len(posts_page[1]) :
             LET api == posts_page[1][k]
                 p == result.value[k]
                 at == AttachmentPositions(api.blocks)
             IN /\ p.metadata # None
                /\ p.metadata[1].locations.id = api.post_id
                /\ Len(p.attachments) = Cardinality(at)
                /\ \A j \in at :
                     LET a == p.attachments[Cardinality({i \in at : i <= j})]
                     IN /\ is_uploaded(a)
                        /\ id(a) = Some(api.blocks[j].attachment.attachment_id)
                        /\ url(a) = Some(api.blocks[j].attachment.file_url)
                /\ p.draft <=> (api.state = 0)
                /\ p.metadata[1].related_projects # << >>
                /\ api.related_projects = << >> =>
                     p.metadata[1].related_projects
                        = <<api.posting_project.handle>>

\* A page was read whose post has a markdown block before an attachment
\* block, is not a draft, and names no related project.
C29_Witness ==
    /\ PageRead
    /\ Len(posts_page[1]) = 1
    /\ Len(posts_page[1][1].blocks) = 2
    /\ posts_page[1][1].blocks[1].type = "markdown"
    /\ posts_page[1][1].blocks[2].type = "attachment"
    /\ posts_page[1][1].state = 2
    /\ posts_page[1][1].related_projects = << >>
    /\ Len(result.value[1].attachments) = 1

\* ----------------------------------------------------------- the base URL

\* Longest base URL given to with_base_url.
MaxUrlLen == 3

\* Characters of a base URL: "/" and one other.
UrlChars == {"h", "/"}

\* Base URLs the caller may give; the empty string is one.
UrlStrings == SeqsUpTo(UrlChars, MaxUrlLen)

\* str::ends_with(char)
ends_with(s, c) == Len(s) > 0 /\ s[Len(s)] = c

\* with_base_url that stores the URL as given.
with_base_url_AsGiven(url_given) == url_given

\* The base URL Client::with_base_url stores (client.rs 52-56).
with_base_url(url_given) ==
    IF ~ends_with(url_given, "/") THEN Append(url_given, "/") ELSE url_given

\* Client::with_base_url (client.rs 50-58), on a Client that has not been
\* moved into a Session; the caller may give the Client's own base URL.
WithBaseUrl ==
    /\ pc = "idle"
    /\ session = None
    /\ \E url_given \in UrlStrings \cup {base_url} :
          /\ custom_url' = Some(url_given)
          /\ base_url' = with_base_url(url_given)
    /\ UNCHANGED <<post, pc, call, requests, task, locals, uploadReqs,
                   result, pre, session, salt, response, posts_page>>

\* The caller owns one Post with a new attachment and a Client whose base
\* URL it may set before it logs in.
InitBaseUrl ==
    /\ post = [headline |-> "t", markdown |-> << >>, draft |-> FALSE,
               attachments |-> <<InnerNew("image/png")>>]
    /\ pc = "idle"
    /\ call = NoCall
    /\ requests = << >>
    /\ task = [i \in Slots |-> "none"]
    /\ locals = [i \in Slots |-> NoLocals]
    /\ uploadReqs = [i \in Slots |-> << >>]
    /\ result = NoResult
    /\ pre = post
    /\ session = None
    /\ salt = None
    /\ response = ""
    /\ NewClient

NextBaseUrl ==
    \/ WithBaseUrl
    \/ GetPostsPage
    \/ PageRespIn({<< >>})
    \/ LoginCall
    \/ SaltResp
    \/ LoginResp
    \/ DeletePost
    \/ DeleteResp
    \/ CreatePost
    \/ FirstResp
    \/ \E i \in Slots : UploadBegin(i)
    \/ \E i \in Slots : StartResp(i)
    \/ \E i \in Slots : MultipartResp(i)
    \/ \E i \in Slots : FinishResp(i)
    \/ IssueFinalize
    \/ FinalizeResp

SpecBaseUrl == InitBaseUrl /\ [][NextBaseUrl]_vars

\* The requests of reqs' that the step issued: those at new positions.
Issued(reqs, reqsNext) ==
    {reqsNext[k] : k \in {j \in 1..Len(reqsNext) :
                            j > Len(reqs) \/ reqsNext[j] # reqs[j]}}

\* C30: the base URL stored by with_base_url always ends with "/": a URL
\* already ending in "/" is stored unchanged, any other gets exactly one
\* "/" appended; giving the stored base URL again leaves it the same; and
\* every request issued with a relative path goes to the base URL followed
\* by that path.
C30_BaseUrlNormalised ==
    [][/\ custom_url' # None =>
            /\ ends_with(base_url', "/")
            /\ ends_with(custom_url'[1], "/") => base_url' = custom_url'[1]
            /\ ~ends_with(custom_url'[1], "/") =>
                  base_url' = custom_url'[1] \o <<"/">>
       /\ (custom_url # None /\ custom_url' = Some(base_url)) =>
            base_url' = base_url
       /\ \A r \in Issued(requests, requests')
                     \cup UNION {Issued(uploadReqs[i], uploadReqs'[i]) :
                                    i \in Slots} :
            "path" \in DOMAIN r => r.url = base_url \o RelativePath(r.path)
      ]_vars

\* The caller gave the base URL "h", which is stored as "h/", logged in
\* and is sending a post whose upload has issued its start request.
C30_Witness ==
    /\ custom_url = Some(<<"h">>)
    /\ base_url = <<"h", "/">>
    /\ session # None
    /\ \E i \in Slots :
          /\ Len(uploadReqs[i]) = 1
          /\ uploadReqs[i][1].url = <<"h", "/", "trpc/posts.attachment.start">>
    /\ requests[1].url = <<"h", "/", "project", "/", Page, "/", "posts">>

====
